---- MODULE Spec2Model ----
(***************************************************************************)
(* A model of the evaluation scripts of universal-ai-dev-assistant:        *)
(*   scripts/evals/comprehensive_eval_suite.py  (ComprehensiveEvalSuite)   *)
(*   scripts/evals/run_humaneval.py             (execute_code, ...)        *)
(*                                                                         *)
(* Python dicts are modelled as sequences of <<key, value>> pairs in       *)
(* insertion order (the order .items() iterates in).  Python floats that   *)
(* hold pass rates are modelled as exact rationals [num, den]; the         *)
(* comparisons against the literals 0.9, 0.8, 0.7, 0.6 are done by cross   *)
(* multiplication.                                                         *)
(***************************************************************************)
EXTENDS Integers, Sequences, FiniteSets, TLC

VARIABLES
    \* ---- ComprehensiveEvalSuite.run_all_evaluations ----
    pc,            \* position of run_all_evaluations
    idx,           \* position of the for loop over eval_tasks (1-based)
    coro,          \* state of each coroutine object of eval_tasks
    outcome,       \* how the coroutine being awaited ends (its return or its raise)
    evaluations,   \* results["evaluations"]
    summary,       \* results["summary"]
    jsonFiles,     \* the JSON artifacts written by save_results
    htmlFiles,     \* the HTML artifacts written by publish_results
    returned,      \* what run_all_evaluations returned to its caller
    interleaved,   \* history: some coroutine body began while an earlier one was unsettled
    \* ---- calculate_summary / generate_recommendations on arbitrary mappings ----
    aggEvals,      \* an evaluations mapping handed to calculate_summary
    aggSummary,    \* the summary calculate_summary returned for aggEvals
    \* ---- calculate_grade ----
    grades,        \* the calls of calculate_grade made so far: <<[rate, grade], ...>>
    \* ---- run_humaneval.execute_code ----
    exPc,          \* position of execute_code
    exCode,        \* the program text passed to execute_code
    exFile,        \* temp_file of the current invocation (0: none yet)
    tempFiles,     \* names of the temporary files that exist
    nextFile,      \* source of fresh temporary file names
    exChild,       \* state of the child process of the current invocation
    exProc,        \* what subprocess.run did in the current invocation
    exLog,         \* the invocations ended so far: what the child did, how the call ended
    exCalls,       \* number of invocations begun
    \* ---- run_humaneval.run_evaluation ----
    dataset,       \* the problems of the dataset file, each with what the completion
                   \* service and the sandbox will do for it
    max_problems,  \* the max_problems argument of run_evaluation
    service,       \* problems: the problems of the dataset that the run attempts
    evPc,          \* position of run_evaluation
    evI,           \* loop position: index of the problem at hand
    completion,    \* the value call_completion_api returned for the problem at hand
    evResults,     \* results: the per-problem records appended so far
    evPassed,      \* passed: the counter of passed problems
    evSummary,     \* the summary run_evaluation returned (empty before)
    apiCalls,      \* per problem: number of completion calls made
    execCalls,     \* per problem: number of execute_code invocations made
    apiPrinted,    \* per problem: what call_completion_api printed
    \* ---- the exit status of the programs ----
    exitLog,       \* the runs of the programs ended so far: aggregate rate, exit status
    \* ---- save_results / publish_results called on a report ----
    pubReport,     \* the results dict handed to save_results and publish_results
    pubClock,      \* datetime.now(), in seconds
    pubFiles,      \* the files written so far: kind, name, content
    \* ---- one category called on its own ----
    catName,       \* the category called last ("none" before the first call)
    catInput,      \* what the service answered to each request of that call
    catResult,     \* the result the category returned
    \* ---- run_milestone1_demo.py: the six checks in order ----
    demoPc,        \* the check run_milestone1_demo is about to make, "summary",
                   \* "done" or "aborted"
    demoResults,   \* results: check name -> bool, the checks recorded so far
    demoRequests,  \* the paths requested from the service, in order
    plan_id,       \* what test_agent_plan returned
    planReply,     \* what the service answered to the plan request
    demoSuccess    \* the value run_milestone1_demo returned (after "done")

schedVars == <<pc, idx, coro, outcome, evaluations, summary, jsonFiles, htmlFiles,
               returned, interleaved>>
aggVars == <<aggEvals, aggSummary>>
gradeVars == <<grades>>
execVars == <<exPc, exCode, exFile, tempFiles, nextFile, exChild, exProc, exLog,
              exCalls>>
evalVars == <<dataset, max_problems, service, evPc, evI, completion, evResults, evPassed, evSummary, apiCalls,
              execCalls, apiPrinted>>
exitVars == <<exitLog>>
pubVars == <<pubReport, pubClock, pubFiles>>
catVars == <<catName, catInput, catResult>>
demoVars == <<demoPc, demoResults, demoRequests, plan_id, planReply, demoSuccess>>
vars == <<schedVars, aggVars, gradeVars, execVars, evalVars, exitVars, pubVars, catVars,
          demoVars>>

(***************************************************************************)
(* Rationals standing for the floats of the source.                        *)
(***************************************************************************)
Rat(n, d) == [num |-> n, den |-> d]

RECURSIVE GCD(_, _)
GCD(m, n) == IF n = 0 THEN m ELSE GCD(n, m % n)

\* the sum, over the least common denominator
RatAdd(a, b) ==
    LET g == GCD(a.den, b.den)
    IN  Rat(a.num * (b.den \div g) + b.num * (a.den \div g), (a.den \div g) * b.den)

RatDivInt(a, k) == Rat(a.num, a.den * k)

RatLess(a, b) == a.num * b.den < b.num * a.den

RatGeq(a, b) == ~RatLess(a, b)

RatEq(a, b) == a.num * b.den = b.num * a.den

(***************************************************************************)
(* Dicts in insertion order.                                               *)
(***************************************************************************)
EmptyDict == <<>>

Keys(d) == {d[k][1] : k \in 1..Len(d)}

HasKey(d, key) == key \in Keys(d)

Get(d, key) == d[CHOOSE k \in 1..Len(d) : d[k][1] = key][2]

\* d[key] = value: an existing key keeps its place, a new key goes last
DictSet(d, key, value) ==
    IF HasKey(d, key)
    THEN [k \in 1..Len(d) |-> IF d[k][1] = key THEN <<key, value>> ELSE d[k]]
    ELSE Append(d, <<key, value>>)

\* "field" in result
In(field, result) == field \in DOMAIN result

\* result.get(field, default)
GetOr(result, field, default) == IF field \in DOMAIN result THEN result[field] ELSE default

(***************************************************************************)
(* The Result Aggregator: calculate_grade, generate_recommendations,       *)
(* calculate_summary.                                                      *)
(***************************************************************************)
\* thresholds compared with > in place of >=
calculate_grade_strict(pass_rate) ==
    IF RatLess(Rat(9, 10), pass_rate) THEN "A"
    ELSE IF RatLess(Rat(8, 10), pass_rate) THEN "B"
    ELSE IF RatLess(Rat(7, 10), pass_rate) THEN "C"
    ELSE IF RatLess(Rat(6, 10), pass_rate) THEN "D"
    ELSE "F"

\* the letters of the two lower thresholds exchanged
calculate_grade_swapped(pass_rate) ==
    IF RatGeq(pass_rate, Rat(9, 10)) THEN "A"
    ELSE IF RatGeq(pass_rate, Rat(8, 10)) THEN "B"
    ELSE IF RatGeq(pass_rate, Rat(7, 10)) THEN "D"
    ELSE IF RatGeq(pass_rate, Rat(6, 10)) THEN "C"
    ELSE "F"

calculate_grade(pass_rate) ==
    IF RatGeq(pass_rate, Rat(9, 10)) THEN "A"
    ELSE IF RatGeq(pass_rate, Rat(8, 10)) THEN "B"
    ELSE IF RatGeq(pass_rate, Rat(7, 10)) THEN "C"
    ELSE IF RatGeq(pass_rate, Rat(6, 10)) THEN "D"
    ELSE "F"

\* f"{x:.1%}": x as a percentage with one decimal, held in tenths of a percent
\* (rounded to the nearest tenth)
FormatPercent1(x) == (2000 * x.num + x.den) \div (2 * x.den)

Excellent == [text |-> "Excellent performance across all evaluations!"]

Improve(eval_name, result) ==
    [text |-> "Improve", name |-> eval_name,
     current |-> FormatPercent1(GetOr(result, "pass_rate", Rat(0, 1)))]

\* a missing pass_rate read as 0 in place of 1.0
RECURSIVE RecommendationLoopDefaultZero(_, _)
RecommendationLoopDefaultZero(evals, k) ==
    IF k = 0 THEN <<>>
    ELSE LET recommendations == RecommendationLoopDefaultZero(evals, k - 1)
             eval_name == evals[k][1]
             result == evals[k][2]
         IN  IF RatLess(GetOr(result, "pass_rate", Rat(0, 1)), Rat(8, 10))
             THEN Append(recommendations, Improve(eval_name, result))
             ELSE recommendations

\* the loop of generate_recommendations over evaluations.items(), entries 1..k
RECURSIVE RecommendationLoop(_, _)
RecommendationLoop(evals, k) ==
    IF k = 0 THEN <<>>
    ELSE LET recommendations == RecommendationLoop(evals, k - 1)
             eval_name == evals[k][1]
             result == evals[k][2]
         IN  IF RatLess(GetOr(result, "pass_rate", Rat(1, 1)), Rat(8, 10))
             THEN Append(recommendations, Improve(eval_name, result))
             ELSE recommendations

\* the list returned as the loop left it, without the affirmative statement
generate_recommendations_as_looped(evals) == RecommendationLoop(evals, Len(evals))

generate_recommendations(evals) ==
    LET recommendations == RecommendationLoop(evals, Len(evals))
    IN  IF Len(recommendations) = 0 THEN <<Excellent>> ELSE recommendations

\* every category counted, one without pass_rate as zero
RECURSIVE SummaryLoopCountsAll(_, _)
SummaryLoopCountsAll(evals, k) ==
    IF k = 0 THEN [total_pass_rate |-> Rat(0, 1), valid_evals |-> 0]
    ELSE LET acc == SummaryLoopCountsAll(evals, k - 1)
             result == evals[k][2]
         IN  [total_pass_rate |->
                 RatAdd(acc.total_pass_rate, GetOr(result, "pass_rate", Rat(0, 1))),
              valid_evals |-> acc.valid_evals + 1]

\* the loop of calculate_summary over evaluations.items(), entries 1..k
RECURSIVE SummaryLoop(_, _)
SummaryLoop(evals, k) ==
    IF k = 0 THEN [total_pass_rate |-> Rat(0, 1), valid_evals |-> 0]
    ELSE LET acc == SummaryLoop(evals, k - 1)
             result == evals[k][2]
         IN  IF In("pass_rate", result)
             THEN [total_pass_rate |-> RatAdd(acc.total_pass_rate, result.pass_rate),
                   valid_evals |-> acc.valid_evals + 1]
             ELSE acc

\* the sum of the rates divided by the number of all categories
calculate_summary_over_all(evals) ==
    LET acc == SummaryLoop(evals, Len(evals))
        overall_pass_rate ==
            IF Len(evals) > 0
            THEN RatDivInt(acc.total_pass_rate, Len(evals))
            ELSE Rat(0, 1)
    IN  [overall_pass_rate |-> overall_pass_rate,
         total_evaluations |-> Len(evals),
         successful_evaluations |->
             Cardinality({k \in 1..Len(evals) :
                             GetOr(evals[k][2], "status", "none") = "success"}),
         grade |-> calculate_grade(overall_pass_rate),
         recommendations |-> generate_recommendations(evals)]

calculate_summary(evals) ==
    LET acc == SummaryLoop(evals, Len(evals))
        overall_pass_rate ==
            IF acc.valid_evals > 0
            THEN RatDivInt(acc.total_pass_rate, acc.valid_evals)
            ELSE Rat(0, 1)
    IN  [overall_pass_rate |-> overall_pass_rate,
         total_evaluations |-> Len(evals),
         successful_evaluations |->
             Cardinality({k \in 1..Len(evals) :
                             GetOr(evals[k][2], "status", "none") = "success"}),
         grade |-> calculate_grade(overall_pass_rate),
         recommendations |-> generate_recommendations(evals)]

(***************************************************************************)
(* The remote service and the sub-processes, as the suite sees them.       *)
(***************************************************************************)
\* what requests.get / requests.post does: a response with a status code, or a
\* raised fault (connection refused, timeout)
StatusCodes == {200, 204, 404, 500}

Responses == {[kind |-> "response", status_code |-> c] : c \in StatusCodes}
             \cup {[kind |-> "fault"]}

\* the faults a call can raise: instances of Exception (OSError, ...), and
\* instances of BaseException only (KeyboardInterrupt)
FaultClasses == {"Exception", "BaseException"}

\* a handler that catches no fault at all
CatchesNothing(exc) == FALSE

\* "except Exception" catches the fault
IsException(exc) == exc = "Exception"

Return(result) == [kind |-> "return", result |-> result]

Raise(exc, msg) == [kind |-> "raise", exc |-> exc, msg |-> msg]

NoOutcome == [kind |-> "none"]

\* the options run_humaneval.py's argument parser declares
HumanevalOptions == {"--model", "--dataset", "--output", "--max-problems", "--download", "-h", "--help"}

\* exit status of run_humaneval.py's main for an argument list of options:
\* argparse ends the process with status 2 on an option it does not declare;
\* otherwise main returns 0 or 1
HumanevalExits(options) ==
    IF \E k \in 1..Len(options) : options[k] \notin HumanevalOptions
    THEN {2}
    ELSE {0, 1}

\* subprocess.run(cmd, capture_output=True, text=True): a completed process, or a
\* raised fault (the interpreter is not found; the wait is interrupted)
CompletedProcess(rc, err) == [kind |-> "completed", returncode |-> rc, stderr |-> err]

SubprocessFaults == {[kind |-> "fault", exc |-> "Exception", msg |-> "No such file or directory"],
                     [kind |-> "fault", exc |-> "BaseException", msg |-> "KeyboardInterrupt"]}

HumanevalRuns ==
    {CompletedProcess(rc, IF rc = 0 THEN "" ELSE "stderr text") :
        rc \in HumanevalExits(<<"--subset">>)}
    \cup SubprocessFaults

\* run_swebench_lite.sh is not part of the sources: any exit status
SwebenchRuns ==
    {CompletedProcess(rc, IF rc = 0 THEN "" ELSE "stderr text") : rc \in {0, 1, 127}}
    \cup SubprocessFaults

(***************************************************************************)
(* The categories of ComprehensiveEvalSuite.                               *)
(***************************************************************************)
run_humaneval(proc) ==
    IF proc.kind = "fault" THEN Raise(proc.exc, proc.msg)
    ELSE IF proc.returncode = 0
    THEN Return([status |-> "success", pass_rate |-> Rat(85, 100), problems_solved |-> "8/10"])
    ELSE Return([status |-> "failed", error |-> proc.stderr])

run_swebench(proc) ==
    IF proc.kind = "fault" THEN Raise(proc.exc, proc.msg)
    ELSE IF proc.returncode = 0
    THEN Return([status |-> "success", pass_rate |-> Rat(60, 100), problems_solved |-> "3/5"])
    ELSE Return([status |-> "failed", error |-> proc.stderr])

\* quality scores and expectations in tenths
\* a score that reaches the expectation of every case
evaluate_code_quality_generous(response) ==
    IF response.kind = "fault" THEN 50
    ELSE IF response.status_code = 200 THEN 85 ELSE 50

evaluate_code_quality(response) ==
    IF response.kind = "fault" THEN 50
    ELSE IF response.status_code = 200 THEN 82 ELSE 50

QualityCases == <<[goal |-> "Add input validation", expected_quality |-> 80],
                  [goal |-> "Optimize database queries", expected_quality |-> 75],
                  [goal |-> "Add error handling", expected_quality |-> 85]>>

PassedCount(results) == Cardinality({k \in 1..Len(results) : results[k].passed})

run_code_quality_eval(responses) ==
    LET results == [k \in 1..Len(QualityCases) |->
                      LET quality_score == evaluate_code_quality(responses[k])
                      IN  [goal |-> QualityCases[k].goal,
                           quality_score |-> quality_score,
                           passed |-> quality_score >= QualityCases[k].expected_quality]]
        passed == PassedCount(results)
    IN  Return([status |-> "success", passed |-> passed, total |-> Len(results),
                pass_rate |-> Rat(passed, Len(results)), results |-> results])

\* a missing metric read as a value beyond every threshold
run_performance_eval_missing_fails(response) ==
    LET metrics == IF response.kind = "response" /\ response.status_code = 200
                   THEN [plan_latency |-> 1500, patch_latency |-> 3000,
                         memory_usage |-> 512, cpu_usage |-> 45]
                   ELSE <<>>
        benchmarks ==
            <<[name |-> "plan_latency_ms", value |-> GetOr(metrics, "plan_latency", 1000000), threshold |-> 2000],
              [name |-> "patch_latency_ms", value |-> GetOr(metrics, "patch_latency", 1000000), threshold |-> 5000],
              [name |-> "memory_usage_mb", value |-> GetOr(metrics, "memory_usage", 1000000), threshold |-> 1024],
              [name |-> "cpu_usage_percent", value |-> GetOr(metrics, "cpu_usage", 1000000), threshold |-> 80]>>
        passed == Cardinality({k \in 1..Len(benchmarks) : benchmarks[k].value <= benchmarks[k].threshold})
    IN  Return([status |-> "success", passed |-> passed, total |-> Len(benchmarks),
                pass_rate |-> Rat(passed, Len(benchmarks)), benchmarks |-> benchmarks])

\* the metrics dict: <<>> for {}
get_performance_metrics(response) ==
    IF response.kind = "fault" THEN <<>>
    ELSE IF response.status_code = 200
    THEN [plan_latency |-> 1500, patch_latency |-> 3000, memory_usage |-> 512, cpu_usage |-> 45]
    ELSE <<>>

run_performance_eval(response) ==
    LET metrics == get_performance_metrics(response)
        benchmarks ==
            <<[name |-> "plan_latency_ms", value |-> GetOr(metrics, "plan_latency", 0), threshold |-> 2000],
              [name |-> "patch_latency_ms", value |-> GetOr(metrics, "patch_latency", 0), threshold |-> 5000],
              [name |-> "memory_usage_mb", value |-> GetOr(metrics, "memory_usage", 0), threshold |-> 1024],
              [name |-> "cpu_usage_percent", value |-> GetOr(metrics, "cpu_usage", 0), threshold |-> 80]>>
        passed == Cardinality({k \in 1..Len(benchmarks) : benchmarks[k].value <= benchmarks[k].threshold})
    IN  Return([status |-> "success", passed |-> passed, total |-> Len(benchmarks),
                pass_rate |-> Rat(passed, Len(benchmarks)), benchmarks |-> benchmarks])

\* a failed call counted as not blocked
test_security_vulnerability_strict(response) ==
    IF response.kind = "fault" THEN FALSE
    ELSE response.status_code >= 400

test_security_vulnerability(response) ==
    IF response.kind = "fault" THEN TRUE
    ELSE response.status_code >= 400

SecurityTests == <<"SQL Injection", "XSS", "Path Traversal", "Command Injection">>

run_security_eval(responses) ==
    LET results == [k \in 1..Len(SecurityTests) |->
                      LET blocked == test_security_vulnerability(responses[k])
                      IN  [name |-> SecurityTests[k], blocked |-> blocked, passed |-> blocked]]
        passed == PassedCount(results)
    IN  Return([status |-> "success", passed |-> passed, total |-> Len(results),
                pass_rate |-> Rat(passed, Len(results)), results |-> results])

test_agent_workflow(response) ==
    IF response.kind = "fault" THEN FALSE
    ELSE IF response.status_code # 200 THEN FALSE ELSE TRUE

WorkflowTests == <<[goal |-> "Add hello world function", complexity |-> "simple"],
                   [goal |-> "Implement user authentication", complexity |-> "medium"],
                   [goal |-> "Add database migration system", complexity |-> "complex"]>>

run_agent_workflow_eval(responses) ==
    LET results == [k \in 1..Len(WorkflowTests) |->
                      LET success == test_agent_workflow(responses[k])
                      IN  [goal |-> WorkflowTests[k].goal,
                           complexity |-> WorkflowTests[k].complexity,
                           success |-> success, passed |-> success]]
        passed == PassedCount(results)
    IN  Return([status |-> "success", passed |-> passed, total |-> Len(results),
                pass_rate |-> Rat(passed, Len(results)), results |-> results])

\* the names of eval_tasks, in list order
eval_tasks == <<"humaneval", "swebench", "code_quality", "performance", "security",
                "agent_workflow">>

\* every way the body of the coroutine of a category can end
Outcomes(eval_name) ==
    CASE eval_name = "humaneval" -> {run_humaneval(p) : p \in HumanevalRuns}
      [] eval_name = "swebench" -> {run_swebench(p) : p \in SwebenchRuns}
      [] eval_name = "code_quality" ->
            {run_code_quality_eval(r) : r \in [1..Len(QualityCases) -> Responses]}
      [] eval_name = "performance" -> {run_performance_eval(r) : r \in Responses}
      [] eval_name = "security" ->
            {run_security_eval(r) : r \in [1..Len(SecurityTests) -> Responses]}
      [] eval_name = "agent_workflow" ->
            {run_agent_workflow_eval(r) : r \in [1..Len(WorkflowTests) -> Responses]}

(***************************************************************************)
(* ComprehensiveEvalSuite.run_all_evaluations.                             *)
(*                                                                         *)
(* eval_tasks holds coroutine objects: calling an async function creates   *)
(* the coroutine without running its body.  The body runs when the for     *)
(* loop awaits it, and no body gives control back before it ends (its      *)
(* calls of requests and subprocess block).                                *)
(***************************************************************************)
CategoryNames == {eval_tasks[k] : k \in 1..Len(eval_tasks)}

InitSched ==
    /\ pc = "loop"
    /\ idx = 1
    /\ coro = [n \in CategoryNames |-> "created"]
    /\ outcome = NoOutcome
    /\ evaluations = EmptyDict
    /\ summary = EmptyDict
    /\ jsonFiles = <<>>
    /\ htmlFiles = <<>>
    /\ returned = <<>>
    /\ interleaved = FALSE

\* a loop that is left after its first task
LoopEndsEarly == idx <= 1

\* the for loop has a next task
LoopHasNext == idx <= Len(eval_tasks)

\* every coroutine not yet begun may start, as under asyncio.gather
StartableAny ==
    IF pc \in {"loop", "running"}
    THEN {k \in 1..Len(eval_tasks) : coro[eval_tasks[k]] = "created"}
    ELSE {}

\* the positions of eval_tasks whose coroutine the loop may start now: the one
\* it awaits
Startable == IF pc = "loop" /\ LoopHasNext THEN {idx} ELSE {}

\* "result = await task": the body of the coroutine begins
AwaitTask ==
    \E k \in Startable :
        /\ coro[eval_tasks[k]] = "created"
        /\ coro' = [coro EXCEPT ![eval_tasks[k]] = "running"]
        /\ \E o \in Outcomes(eval_tasks[k]) : outcome' = o
        /\ interleaved' = (interleaved
                           \/ \E j \in 1..(k - 1) : coro[eval_tasks[j]] # "closed")
        /\ pc' = "running"
        /\ UNCHANGED <<idx, evaluations, summary, jsonFiles, htmlFiles, returned>>
        /\ UNCHANGED <<aggVars, gradeVars, execVars, evalVars, exitVars,
                       pubVars, catVars, demoVars>>

\* the coroutine returned: results["evaluations"][eval_name] = result
TaskReturns ==
    /\ pc = "running"
    /\ outcome.kind = "return"
    /\ evaluations' = DictSet(evaluations, eval_tasks[idx], outcome.result)
    /\ coro' = [coro EXCEPT ![eval_tasks[idx]] = "closed"]
    /\ idx' = idx + 1
    /\ pc' = "loop"
    /\ UNCHANGED <<outcome, summary, jsonFiles, htmlFiles, returned, interleaved>>
    /\ UNCHANGED <<aggVars, gradeVars, execVars, evalVars, exitVars,
                   pubVars, catVars, demoVars>>

\* what the except clause records for a fault with message msg
ExceptionResult(msg) == [error |-> msg]

\* an except clause that reports the fault and records nothing
TaskRaisesNotRecorded ==
    /\ pc = "running"
    /\ outcome.kind = "raise"
    /\ IsException(outcome.exc)
    /\ coro' = [coro EXCEPT ![eval_tasks[idx]] = "closed"]
    /\ idx' = idx + 1
    /\ pc' = "loop"
    /\ UNCHANGED <<outcome, evaluations, summary, jsonFiles, htmlFiles, returned,
                   interleaved>>
    /\ UNCHANGED <<aggVars, gradeVars, execVars, evalVars, exitVars,
                   pubVars, catVars, demoVars>>

\* no except clause: the fault of the category leaves run_all_evaluations
TaskRaisesPropagates ==
    /\ pc = "running"
    /\ outcome.kind = "raise"
    /\ IsException(outcome.exc)
    /\ coro' = [coro EXCEPT ![eval_tasks[idx]] = "closed"]
    /\ pc' = "aborted"
    /\ UNCHANGED <<idx, outcome, evaluations, summary, jsonFiles, htmlFiles, returned,
                   interleaved>>
    /\ UNCHANGED <<aggVars, gradeVars, execVars, evalVars, exitVars,
                   pubVars, catVars, demoVars>>

\* the coroutine raised and "except Exception as e" caught it
TaskRaisesCaught ==
    /\ pc = "running"
    /\ outcome.kind = "raise"
    /\ IsException(outcome.exc)
    /\ evaluations' = DictSet(evaluations, eval_tasks[idx], ExceptionResult(outcome.msg))
    /\ coro' = [coro EXCEPT ![eval_tasks[idx]] = "closed"]
    /\ idx' = idx + 1
    /\ pc' = "loop"
    /\ UNCHANGED <<outcome, summary, jsonFiles, htmlFiles, returned, interleaved>>
    /\ UNCHANGED <<aggVars, gradeVars, execVars, evalVars, exitVars,
                   pubVars, catVars, demoVars>>

\* the coroutine raised a fault the except clause does not catch: it leaves
\* run_all_evaluations
TaskRaisesUncaught ==
    /\ pc = "running"
    /\ outcome.kind = "raise"
    /\ ~IsException(outcome.exc)
    /\ coro' = [coro EXCEPT ![eval_tasks[idx]] = "closed"]
    /\ pc' = "aborted"
    /\ UNCHANGED <<idx, outcome, evaluations, summary, jsonFiles, htmlFiles, returned,
                   interleaved>>
    /\ UNCHANGED <<aggVars, gradeVars, execVars, evalVars, exitVars,
                   pubVars, catVars, demoVars>>

\* after the loop: results["summary"] = self.calculate_summary(results["evaluations"])
Summarize ==
    /\ pc = "loop"
    /\ ~LoopHasNext
    /\ summary' = calculate_summary(evaluations)
    /\ pc' = "save"
    /\ UNCHANGED <<idx, coro, outcome, evaluations, jsonFiles, htmlFiles, returned,
                   interleaved>>
    /\ UNCHANGED <<aggVars, gradeVars, execVars, evalVars, exitVars,
                   pubVars, catVars, demoVars>>

\* the results dict (its timestamp and total_time left out)
Results == [suite |-> "comprehensive", evaluations |-> evaluations, summary |-> summary]

\* a document that also holds the time of writing
JsonDocumentStamped(results) == [document |-> results, saved_at |-> pubClock]

\* json.dump(results, f, indent=2): the document holds the dict as it is
JsonDocument(results) == results

\* save_results: the file is written, or open/write raises
SaveResults ==
    /\ pc = "save"
    /\ \/ /\ jsonFiles' = Append(jsonFiles, JsonDocument(Results))
          /\ pc' = "publish"
       \/ /\ pc' = "aborted"
          /\ UNCHANGED jsonFiles
    /\ UNCHANGED <<idx, coro, outcome, evaluations, summary, htmlFiles, returned,
                   interleaved>>
    /\ UNCHANGED <<aggVars, gradeVars, execVars, evalVars, exitVars,
                   pubVars, catVars, demoVars>>

\* generate_evaluation_details_html: one block per entry
generate_evaluation_details_html(evals) ==
    [k \in 1..Len(evals) |->
        [title |-> evals[k][1],
         status_class |-> IF GetOr(evals[k][2], "status", "none") = "success"
                          THEN "pass" ELSE "fail",
         status |-> GetOr(evals[k][2], "status", "unknown"),
         pass_rate |-> FormatPercent1(GetOr(evals[k][2], "pass_rate", Rat(0, 1)))]]

\* generate_html_report: what the page shows of the results
generate_html_report(results) ==
    [grade |-> results.summary.grade,
     grade_color |-> IF results.summary.grade \in {"A", "B"} THEN "#28a745"
                     ELSE IF results.summary.grade = "C" THEN "#ffc107" ELSE "#dc3545",
     overall_pass_rate |-> FormatPercent1(results.summary.overall_pass_rate),
     details |-> generate_evaluation_details_html(results.evaluations),
     recommendations |-> results.summary.recommendations]

\* publish_results: the page is written, or open/write raises
PublishResults ==
    /\ pc = "publish"
    /\ \/ /\ htmlFiles' = Append(htmlFiles, generate_html_report(Results))
          /\ pc' = "return"
       \/ /\ pc' = "aborted"
          /\ UNCHANGED htmlFiles
    /\ UNCHANGED <<idx, coro, outcome, evaluations, summary, jsonFiles, returned,
                   interleaved>>
    /\ UNCHANGED <<aggVars, gradeVars, execVars, evalVars, exitVars,
                   pubVars, catVars, demoVars>>

\* return results
ReturnResults ==
    /\ pc = "return"
    /\ returned' = Append(returned, Results)
    /\ pc' = "done"
    /\ UNCHANGED <<idx, coro, outcome, evaluations, summary, jsonFiles, htmlFiles,
                   interleaved>>
    /\ UNCHANGED <<aggVars, gradeVars, execVars, evalVars, exitVars,
                   pubVars, catVars, demoVars>>

(***************************************************************************)
(* calculate_summary applied to arbitrary evaluations mappings.            *)
(***************************************************************************)
MaxCats == 3

CatNames == <<"Alpha", "Beta", "Gamma", "Delta", "Epsilon">>

AggNames == {CatNames[k] : k \in 1..MaxCats}

AggRates == {Rat(0, 1), Rat(1, 2), Rat(2, 3), Rat(4, 5), Rat(1, 1)}

\* results with a pass_rate, the failure a category returns, the failure the
\* scheduler records
AggResults ==
    {[status |-> "success", pass_rate |-> r] : r \in AggRates}
    \cup {[status |-> "failed", error |-> "stderr text"], ExceptionResult("message")}

InitAgg ==
    /\ aggEvals = EmptyDict
    /\ aggSummary = calculate_summary(EmptyDict)

\* a result is stored under a new name and the summary is calculated from the
\* mapping
AggRecord ==
    \E n \in AggNames, r \in AggResults :
        /\ ~HasKey(aggEvals, n)
        /\ Len(aggEvals) < MaxCats
        /\ aggEvals' = DictSet(aggEvals, n, r)
        /\ aggSummary' = calculate_summary(aggEvals')
        /\ UNCHANGED <<schedVars, gradeVars, execVars, evalVars, exitVars,
                       pubVars, catVars, demoVars>>

\* a full run in which the two benchmark categories succeeded
BenchmarksSucceeded ==
    <<<<"humaneval", run_humaneval(CompletedProcess(0, "")).result>>,
      <<"swebench", run_swebench(CompletedProcess(0, "")).result>>,
      <<"code_quality", [status |-> "success", pass_rate |-> Rat(2, 3)]>>,
      <<"performance", [status |-> "success", pass_rate |-> Rat(1, 1)]>>,
      <<"security", [status |-> "success", pass_rate |-> Rat(1, 1)]>>,
      <<"agent_workflow", [status |-> "success", pass_rate |-> Rat(1, 1)]>>>>

\* the same run with the two benchmark categories failed
BenchmarksFailed ==
    [k \in 1..Len(BenchmarksSucceeded) |->
        IF k <= 2
        THEN <<BenchmarksSucceeded[k][1], [status |-> "failed", error |-> "stderr text"]>>
        ELSE BenchmarksSucceeded[k]]

\* the failures that carry no pass_rate
Failures == {r \in AggResults : ~In("pass_rate", r)}

\* the result of a rated category is replaced by a failure and the summary is
\* calculated from the mapping
AggFail ==
    \E k \in 1..Len(aggEvals), r \in Failures :
        /\ In("pass_rate", aggEvals[k][2])
        /\ aggEvals' = DictSet(aggEvals, aggEvals[k][1], r)
        /\ aggSummary' = calculate_summary(aggEvals')
        /\ UNCHANGED <<schedVars, gradeVars, execVars, evalVars, exitVars,
                       pubVars, catVars, demoVars>>

(***************************************************************************)
(* calculate_grade applied to arbitrary pass rates.                        *)
(***************************************************************************)
GradeDen == 20

MaxGradeCalls == 2

GradeInputs ==
    {Rat(k, GradeDen) : k \in 0..GradeDen}
    \cup {Rat(90, 100), Rat(8999, 10000), Rat(80, 100), Rat(7999, 10000),
          Rat(70, 100), Rat(6999, 10000), Rat(60, 100), Rat(5999, 10000)}

InitGrade == grades = <<>>

CalculateGrade ==
    /\ Len(grades) < MaxGradeCalls
    /\ \E r \in GradeInputs :
          grades' = Append(grades, [rate |-> r, grade |-> calculate_grade(r)])
    /\ UNCHANGED <<schedVars, aggVars, execVars, evalVars, exitVars,
                   pubVars, catVars, demoVars>>

(***************************************************************************)
(* run_humaneval.execute_code.                                             *)
(***************************************************************************)
MaxCalls == 2

Programs == {"program"}

NoProc == [kind |-> "none"]

\* what subprocess.run(['python', temp_file], ..., timeout=10) does: the child
\* ends by itself, the child outlives the timeout, or the call raises otherwise
ProcRuns ==
    {[kind |-> "completed", returncode |-> rc, stdout |-> out, stderr |-> err] :
        rc \in {0, 1, -1}, out \in {"", "output"},
        err \in {"", "AssertionError", "Execution timeout"}}
    \cup {[kind |-> "timeout"]}
    \cup {[kind |-> "fault", exc |-> e, msg |-> "No such file or directory"] :
            e \in FaultClasses}

\* success judged by an empty stderr in place of the exit status
ExecuteResultByStderr(proc) ==
    CASE proc.kind = "completed" ->
            Return([success |-> proc.stderr = "", stdout |-> proc.stdout,
                    stderr |-> proc.stderr, returncode |-> proc.returncode])
      [] proc.kind = "timeout" ->
            Return([success |-> FALSE, stdout |-> "", stderr |-> "Execution timeout",
                    returncode |-> -1])
      [] proc.kind = "fault" ->
            IF IsException(proc.exc)
            THEN Return([success |-> FALSE, stdout |-> "", stderr |-> proc.msg,
                         returncode |-> -1])
            ELSE Raise(proc.exc, proc.msg)

\* subprocess.TimeoutExpired not caught: the timeout leaves execute_code
ExecuteResultTimeoutRaises(proc) ==
    CASE proc.kind = "completed" ->
            Return([success |-> proc.returncode = 0, stdout |-> proc.stdout,
                    stderr |-> proc.stderr, returncode |-> proc.returncode])
      [] proc.kind = "timeout" -> Raise("Exception", "TimeoutExpired")
      [] proc.kind = "fault" ->
            IF IsException(proc.exc)
            THEN Return([success |-> FALSE, stdout |-> "", stderr |-> proc.msg,
                         returncode |-> -1])
            ELSE Raise(proc.exc, proc.msg)

\* how the try statement of execute_code ends for what subprocess.run did
ExecuteResult(proc) ==
    CASE proc.kind = "completed" ->
            Return([success |-> proc.returncode = 0, stdout |-> proc.stdout,
                    stderr |-> proc.stderr, returncode |-> proc.returncode])
      [] proc.kind = "timeout" ->
            Return([success |-> FALSE, stdout |-> "", stderr |-> "Execution timeout",
                    returncode |-> -1])
      [] proc.kind = "fault" ->
            IF IsException(proc.exc)
            THEN Return([success |-> FALSE, stdout |-> "", stderr |-> proc.msg,
                         returncode |-> -1])
            ELSE Raise(proc.exc, proc.msg)

InitExec ==
    /\ exPc = "idle"
    /\ exCode = "none"
    /\ exFile = 0
    /\ tempFiles = {}
    /\ nextFile = 1
    /\ exChild = "none"
    /\ exProc = NoProc
    /\ exLog = <<>>
    /\ exCalls = 0

\* execute_code(code) is called: NamedTemporaryFile(delete=False) creates the file
ExecCall ==
    /\ exPc = "idle"
    /\ exCalls < MaxCalls
    /\ \E c \in Programs : exCode' = c
    /\ exCalls' = exCalls + 1
    /\ exFile' = nextFile
    /\ nextFile' = nextFile + 1
    /\ tempFiles' = tempFiles \cup {nextFile}
    /\ exChild' = "none"
    /\ exProc' = NoProc
    /\ exPc' = "opened"
    /\ UNCHANGED exLog
    /\ UNCHANGED <<schedVars, aggVars, gradeVars, evalVars, exitVars,
                   pubVars, catVars, demoVars>>

\* f.write(code) inside the with block: the text is written, or the write
\* raises and the fault leaves execute_code before its try statement
ExecWrite ==
    /\ exPc = "opened"
    /\ \/ /\ exPc' = "try"
          /\ UNCHANGED exLog
       \/ /\ exPc' = "idle"
          /\ exLog' = Append(exLog, [proc |-> NoProc, end |-> Raise("Exception", "write failed")])
    /\ UNCHANGED <<exCode, exFile, tempFiles, nextFile, exChild, exProc, exCalls>>
    /\ UNCHANGED <<schedVars, aggVars, gradeVars, evalVars, exitVars,
                   pubVars, catVars, demoVars>>

\* subprocess.run: it kills the child before it raises TimeoutExpired
ExecRun ==
    /\ exPc = "try"
    /\ \E proc \in ProcRuns :
          /\ exProc' = proc
          /\ exChild' = CASE proc.kind = "completed" -> "exited"
                          [] proc.kind = "timeout" -> "killed"
                          [] proc.kind = "fault" -> "none"
    /\ exPc' = "finally"
    /\ UNCHANGED <<exCode, exFile, tempFiles, nextFile, exLog, exCalls>>
    /\ UNCHANGED <<schedVars, aggVars, gradeVars, evalVars, exitVars,
                   pubVars, catVars, demoVars>>

\* the finally clause, os.unlink(temp_file), then the return or the raise
ExecFinally ==
    /\ exPc = "finally"
    /\ tempFiles' = tempFiles \ {exFile}
    /\ exLog' = Append(exLog, [proc |-> exProc, end |-> ExecuteResult(exProc)])
    /\ exPc' = "idle"
    /\ UNCHANGED <<exCode, exFile, nextFile, exChild, exProc, exCalls>>
    /\ UNCHANGED <<schedVars, aggVars, gradeVars, evalVars, exitVars,
                   pubVars, catVars, demoVars>>

(***************************************************************************)
(* run_humaneval.py: call_completion_api, evaluate_solution and            *)
(* run_evaluation.  The dataset and what the completion service and the    *)
(* sandbox do for each of its problems are fixed when the run starts.      *)
(***************************************************************************)
MaxProblems == 2

\* Python values a completion can be: text, or a JSON value that is not text
Str(t) == [type |-> "str", value |-> t]
NonText == {[type |-> "dict", value |-> "nonempty"], [type |-> "list", value |-> "empty"]}

\* a value that is always taken for a completion
AlwaysTruthy(v) == TRUE

\* bool(value): empty text and empty containers are falsy
Truthy(v) == IF v.type = "str" THEN v.value # "" ELSE v.value # "empty"

CompletionStatusCodes == {200, 204, 404}

\* the bodies of a 200 response: not JSON at all, an object without the
\* "suggestions" key, or an object with a list of suggestions
NoBody == [json |-> FALSE, suggestions |-> <<>>]
Bodies ==
    {NoBody, [json |-> TRUE, suggestions |-> <<>>],
     [json |-> TRUE, suggestions |-> <<Str("    return 1")>>]}
    \cup {[json |-> TRUE, suggestions |-> <<v>>] : v \in NonText}

\* what requests.post does: a response, or a raised fault
CompletionReplies ==
    {[kind |-> "response", status_code |-> 200, body |-> b] : b \in Bodies}
    \cup {[kind |-> "response", status_code |-> c, body |-> NoBody] :
            c \in CompletionStatusCodes \ {200}}
    \cup {[kind |-> "fault", exc |-> x] : x \in FaultClasses}

\* the error branch taken for the statuses from 400 only
call_completion_api_from_400(reply) ==
    IF reply.kind = "fault"
    THEN IF IsException(reply.exc)
         THEN [end |-> Return(Str("")), printed |-> "API call failed"]
         ELSE [end |-> Raise(reply.exc, "interrupted"), printed |-> ""]
    ELSE IF reply.status_code < 400
         THEN IF ~reply.body.json
              THEN [end |-> Return(Str("")), printed |-> "API call failed"]
              ELSE IF Len(reply.body.suggestions) > 0
                   THEN [end |-> Return(reply.body.suggestions[1]), printed |-> ""]
                   ELSE [end |-> Return(Str("")), printed |-> ""]
         ELSE [end |-> Return(Str("")), printed |-> "API error"]

\* call_completion_api: how the call ends and what it prints
call_completion_api(reply) ==
    IF reply.kind = "fault"
    THEN IF IsException(reply.exc)
         THEN [end |-> Return(Str("")), printed |-> "API call failed"]
         ELSE [end |-> Raise(reply.exc, "interrupted"), printed |-> ""]
    ELSE IF reply.status_code = 200
         THEN IF ~reply.body.json
              THEN [end |-> Return(Str("")), printed |-> "API call failed"]
              ELSE IF Len(reply.body.suggestions) > 0
                   THEN [end |-> Return(reply.body.suggestions[1]), printed |-> ""]
                   ELSE [end |-> Return(Str("")), printed |-> ""]
         ELSE [end |-> Return(Str("")), printed |-> "API error"]

\* what the sandbox does with the assembled program: the write of the temporary
\* file fails, or subprocess.run behaves as one of these
WriteFault == [kind |-> "write fault"]
SandboxRuns ==
    {WriteFault,
     [kind |-> "completed", returncode |-> 0, stdout |-> "", stderr |-> ""],
     [kind |-> "completed", returncode |-> 1, stdout |-> "", stderr |-> "AssertionError"],
     [kind |-> "timeout"]}
    \cup {[kind |-> "fault", exc |-> x, msg |-> "cannot start python"] : x \in FaultClasses}

\* execute_code as one step
execute_code(run) ==
    IF run = WriteFault THEN Raise("Exception", "write failed") ELSE ExecuteResult(run)

\* evaluate_solution: prompt + completion raises TypeError for a value that is
\* not text
evaluate_solution(task_id, c, run) ==
    IF c.type # "str"
    THEN Raise("Exception", "TypeError")
    ELSE LET ex == execute_code(run)
         IN  IF ex.kind = "raise" THEN ex
             ELSE Return([task_id |-> task_id, completion |-> c,
                          passed |-> ex.result.success, result |-> ex.result])

\* evaluate_solution reaches execute_code
Executes(c) == c.type = "str"

\* the record of a problem without completion
NoCompletionResult(task_id) ==
    [task_id |-> task_id, completion |-> Str(""), passed |-> FALSE,
     result |-> [success |-> FALSE, stderr |-> "No completion"]]

\* passed / total_problems without the factor 100
pass_rate_fraction(n, total_problems) ==
    IF total_problems > 0 THEN Rat(n, total_problems) ELSE Rat(0, 1)

pass_rate(n, total_problems) ==
    IF total_problems > 0 THEN Rat(n * 100, total_problems) ELSE Rat(0, 1)

\* the reply that carries a text suggestion
TextReply ==
    [kind |-> "response", status_code |-> 200,
     body |-> [json |-> TRUE, suggestions |-> <<Str("    return 1")>>]]

\* the service and sandbox behaviours of one problem; what the sandbox does is
\* varied only where the completion call returns text
ServiceCases ==
    {[api |-> a,
      run |-> [kind |-> "completed", returncode |-> 0, stdout |-> "", stderr |-> ""]] :
        a \in CompletionReplies \ {TextReply}}
    \cup {[api |-> TextReply, run |-> r] : r \in SandboxRuns}

Passing == [api |-> TextReply,
            run |-> [kind |-> "completed", returncode |-> 0, stdout |-> "", stderr |-> ""]]
RaisingTest == [Passing EXCEPT !.run =
                  [kind |-> "completed", returncode |-> 1, stdout |-> "",
                   stderr |-> "AssertionError"]]
TimingOut == [Passing EXCEPT !.run = [kind |-> "timeout"]]

\* ten problems: eight pass, the test of one raises, one runs into the timeout
ScenarioB ==
    [i \in 1..10 |-> IF i = 4 THEN RaisingTest ELSE IF i = 9 THEN TimingOut ELSE Passing]

Datasets == UNION {[1..n -> ServiceCases] : n \in 0..MaxProblems} \cup {ScenarioB}

\* the values of max_problems: None, or what argparse makes of --max-problems
MaxLimit == 3
None == [type |-> "NoneType"]
IntValue(m) == [type |-> "int", value |-> m]
Limits == {None} \cup {IntValue(m) : m \in 0..MaxLimit}

\* problems[:max_problems] under "if max_problems:", which 0 and None do not pass
limit_problems(problems, limit) ==
    IF limit.type = "int" /\ limit.value # 0
    THEN SubSeq(problems, 1, IF limit.value < Len(problems) THEN limit.value
                             ELSE Len(problems))
    ELSE problems

InitEval(problems, limit) ==
    /\ dataset = problems
    /\ max_problems = limit
    /\ service = <<>>
    /\ evPc = "start"
    /\ evI = 1
    /\ completion = Str("")
    /\ evResults = <<>>
    /\ evPassed = 0
    /\ evSummary = [n \in {} |-> 0]
    /\ apiCalls = <<>>
    /\ execCalls = <<>>
    /\ apiPrinted = <<>>

\* lines 117-126: the dataset is loaded and cut to max_problems
EvalLoad ==
    /\ evPc = "start"
    /\ LET problems == limit_problems(dataset, max_problems)
       IN  /\ service' = problems
           /\ apiCalls' = [i \in 1..Len(problems) |-> 0]
           /\ execCalls' = [i \in 1..Len(problems) |-> 0]
           /\ apiPrinted' = [i \in 1..Len(problems) |-> ""]
    /\ evPc' = "loop"
    /\ UNCHANGED <<dataset, max_problems, evI, completion, evResults, evPassed,
                   evSummary>>
    /\ UNCHANGED <<schedVars, aggVars, gradeVars, execVars, exitVars,
                   pubVars, catVars, demoVars>>

\* line 132: completion = call_completion_api(problem["prompt"], model)
EvalComplete ==
    /\ evPc = "loop"
    /\ evI <= Len(service)
    /\ LET c == call_completion_api(service[evI].api)
       IN  /\ apiCalls' = [apiCalls EXCEPT ![evI] = @ + 1]
           /\ apiPrinted' = [apiPrinted EXCEPT ![evI] = c.printed]
           /\ IF c.end.kind = "return"
              THEN completion' = c.end.result /\ evPc' = "completed"
              ELSE UNCHANGED completion /\ evPc' = "aborted"
    /\ UNCHANGED <<dataset, max_problems, service,
                   evI, evResults, evPassed, evSummary, execCalls>>
    /\ UNCHANGED <<schedVars, aggVars, gradeVars, execVars, exitVars,
                   pubVars, catVars, demoVars>>

\* a problem without completion is asked for again
EvalNoCompletionRetry ==
    /\ evPc = "completed"
    /\ ~Truthy(completion)
    /\ evPc' = "loop"
    /\ UNCHANGED <<dataset, max_problems, service,
                   evI, completion, evResults, evPassed, evSummary, apiCalls,
                   execCalls, apiPrinted>>
    /\ UNCHANGED <<schedVars, aggVars, gradeVars, execVars, exitVars,
                   pubVars, catVars, demoVars>>

\* a problem without completion is passed over without a record
EvalNoCompletionSkips ==
    /\ evPc = "completed"
    /\ ~Truthy(completion)
    /\ evI' = evI + 1
    /\ evPc' = "loop"
    /\ UNCHANGED <<dataset, max_problems, service, completion, evResults, evPassed,
                   evSummary, apiCalls, execCalls, apiPrinted>>
    /\ UNCHANGED <<schedVars, aggVars, gradeVars, execVars, exitVars,
                   pubVars, catVars, demoVars>>

\* lines 134-142: no completion, the problem is recorded as failed
EvalNoCompletion ==
    /\ evPc = "completed"
    /\ ~Truthy(completion)
    /\ evResults' = Append(evResults, NoCompletionResult(evI))
    /\ evI' = evI + 1
    /\ evPc' = "loop"
    /\ UNCHANGED <<dataset, max_problems, service,
                   completion, evPassed, evSummary, apiCalls, execCalls,
                   apiPrinted>>
    /\ UNCHANGED <<schedVars, aggVars, gradeVars, execVars, exitVars,
                   pubVars, catVars, demoVars>>

\* lines 145-152: the solution is evaluated and recorded
EvalSolution ==
    /\ evPc = "completed"
    /\ Truthy(completion)
    /\ LET o == evaluate_solution(evI, completion, service[evI].run)
       IN  /\ o.kind = "return"
           /\ evResults' = Append(evResults, o.result)
           /\ evPassed' = IF o.result.passed THEN evPassed + 1 ELSE evPassed
    /\ execCalls' = [execCalls EXCEPT ![evI] = @ + 1]
    /\ evI' = evI + 1
    /\ evPc' = "loop"
    /\ UNCHANGED <<dataset, max_problems, service,
                   completion, evSummary, apiCalls, apiPrinted>>
    /\ UNCHANGED <<schedVars, aggVars, gradeVars, execVars, exitVars,
                   pubVars, catVars, demoVars>>

\* line 145: evaluate_solution raises, and nothing in run_evaluation catches it
EvalSolutionRaises ==
    /\ evPc = "completed"
    /\ Truthy(completion)
    /\ evaluate_solution(evI, completion, service[evI].run).kind = "raise"
    /\ execCalls' = IF Executes(completion)
                    THEN [execCalls EXCEPT ![evI] = @ + 1] ELSE execCalls
    /\ evPc' = "aborted"
    /\ UNCHANGED <<dataset, max_problems, service,
                   evI, completion, evResults, evPassed, evSummary, apiCalls,
                   apiPrinted>>
    /\ UNCHANGED <<schedVars, aggVars, gradeVars, execVars, exitVars,
                   pubVars, catVars, demoVars>>

\* lines 154-173: the metrics and the returned summary
EvalSummarize ==
    /\ evPc = "loop"
    /\ evI > Len(service)
    /\ evSummary' = [total_problems |-> Len(service), passed |-> evPassed,
                     pass_rate |-> pass_rate(evPassed, Len(service)),
                     results |-> evResults]
    /\ evPc' = "done"
    /\ UNCHANGED <<dataset, max_problems, service,
                   evI, completion, evResults, evPassed, apiCalls, execCalls,
                   apiPrinted>>
    /\ UNCHANGED <<schedVars, aggVars, gradeVars, execVars, exitVars,
                   pubVars, catVars, demoVars>>

(***************************************************************************)
(* The exit status of the three programs: run_humaneval.py,                *)
(* comprehensive_eval_suite.py and run_milestone1_demo.py.                 *)
(***************************************************************************)
MaxRuns == 2
MaxTotal == 3

\* what run_evaluation hands to main: a summary, or a fault that leaves it
EvaluationEnds ==
    UNION {{Return([passed |-> k, total_problems |-> n, pass_rate |-> pass_rate(k, n)]) :
               k \in 0..n} : n \in 0..MaxTotal}
    \cup {Raise("Exception", "TypeError")}

\* main of run_humaneval.py that fails a run below 80 percent
humaneval_main_gated(dataset_exists, health, evaluation) ==
    IF ~dataset_exists THEN 1
    ELSE IF health.kind = "fault" THEN 1
    ELSE IF health.status_code # 200 THEN 1
    ELSE IF evaluation.kind = "raise" THEN 1
    ELSE IF RatLess(evaluation.result.pass_rate, Rat(80, 1)) THEN 1
    ELSE 0

\* main of run_humaneval.py (without --download): the status it ends with
humaneval_main(dataset_exists, health, evaluation) ==
    IF ~dataset_exists THEN 1
    ELSE IF health.kind = "fault" THEN 1
    ELSE IF health.status_code # 200 THEN 1
    ELSE IF evaluation.kind = "raise" THEN 1
    ELSE 0

\* what run_all_evaluations hands to main of the suite
SuiteEnds ==
    {Return([overall_pass_rate |-> r]) : r \in AggRates}
    \cup {Raise("BaseException", "KeyboardInterrupt")}

\* main of comprehensive_eval_suite.py: asyncio.run(main()) ends with status 0
\* unless a fault leaves it
suite_main(end) == IF end.kind = "raise" THEN 1 ELSE 0

\* the six checks of run_milestone1_demo; no patch is asked for without a plan
Checks == {"health", "completion", "analysis", "planning", "patching", "metrics"}
DemoResults == {r \in [Checks -> BOOLEAN] : r["patching"] => r["planning"]}

passed_tests(results) == Cardinality({c \in DOMAIN results : results[c]})
total_tests(results) == Cardinality(DOMAIN results)

\* passed_tests >= total_tests * 0.8
run_milestone1_demo(results) == passed_tests(results) * 10 >= total_tests(results) * 8

InitExit == exitLog = <<>>

\* one run of run_humaneval.py
MainHumaneval ==
    /\ Len(exitLog) < MaxRuns
    /\ \E dataset_exists \in BOOLEAN, health \in Responses, evaluation \in EvaluationEnds :
          LET ran == /\ dataset_exists /\ health.kind = "response"
                     /\ health.status_code = 200 /\ evaluation.kind = "return"
          IN  exitLog' = Append(exitLog,
                  [program |-> "run_humaneval", completed |-> ran,
                   rate |-> IF ran
                            THEN RatDivInt(evaluation.result.pass_rate, 100)
                            ELSE Rat(0, 1),
                   status |-> humaneval_main(dataset_exists, health, evaluation)])
    /\ UNCHANGED <<schedVars, aggVars, gradeVars, execVars, evalVars,
                   pubVars, catVars, demoVars>>

\* one run of comprehensive_eval_suite.py
MainSuite ==
    /\ Len(exitLog) < MaxRuns
    /\ \E end \in SuiteEnds :
          exitLog' = Append(exitLog,
              [program |-> "comprehensive_eval_suite", completed |-> end.kind = "return",
               rate |-> IF end.kind = "return" THEN end.result.overall_pass_rate
                        ELSE Rat(0, 1),
               status |-> suite_main(end)])
    /\ UNCHANGED <<schedVars, aggVars, gradeVars, execVars, evalVars,
                   pubVars, catVars, demoVars>>

\* one run of run_milestone1_demo.py: exit(0 if success else 1)
MainMilestone1 ==
    /\ Len(exitLog) < MaxRuns
    /\ \E results \in DemoResults :
          exitLog' = Append(exitLog,
              [program |-> "run_milestone1_demo", completed |-> TRUE,
               rate |-> Rat(passed_tests(results), total_tests(results)),
               status |-> IF run_milestone1_demo(results) THEN 0 ELSE 1])
    /\ UNCHANGED <<schedVars, aggVars, gradeVars, execVars, evalVars,
                   pubVars, catVars, demoVars>>

(***************************************************************************)
(* save_results and publish_results called, any number of times, on one    *)
(* report while the clock goes on.                                         *)
(***************************************************************************)
MaxWrites == 4
MaxClock == 2

\* the report run_all_evaluations builds for an evaluations mapping
Report(evals) ==
    [suite |-> "comprehensive", evaluations |-> evals,
     summary |-> calculate_summary(evals)]

PubReports ==
    {Report(<<>>)} \cup {Report(<<<<"humaneval", r>>>>) : r \in AggResults}

\* f"comprehensive_eval_{timestamp}" with the suffix of the kind of file
FileName(suffix) == <<"comprehensive_eval_", pubClock, suffix>>

InitPublish(report) ==
    /\ pubReport = report
    /\ pubClock = 0
    /\ pubFiles = <<>>

\* time passes
PubTick ==
    /\ pubClock < MaxClock
    /\ pubClock' = pubClock + 1
    /\ UNCHANGED <<pubReport, pubFiles>>
    /\ UNCHANGED <<schedVars, aggVars, gradeVars, execVars, evalVars,
                   exitVars, catVars, demoVars>>

\* save_results(results)
PubSave ==
    /\ Len(pubFiles) < MaxWrites
    /\ pubFiles' = Append(pubFiles, [kind |-> "json", name |-> FileName(".json"),
                                     content |-> JsonDocument(pubReport)])
    /\ UNCHANGED <<pubReport, pubClock>>
    /\ UNCHANGED <<schedVars, aggVars, gradeVars, execVars, evalVars,
                   exitVars, catVars, demoVars>>

\* publish_results(results)
PubPublish ==
    /\ Len(pubFiles) < MaxWrites
    /\ pubFiles' = Append(pubFiles, [kind |-> "html", name |-> FileName(".html"),
                                     content |-> generate_html_report(pubReport)])
    /\ UNCHANGED <<pubReport, pubClock>>
    /\ UNCHANGED <<schedVars, aggVars, gradeVars, execVars, evalVars,
                   exitVars, catVars, demoVars>>

(***************************************************************************)
(* run_performance_eval and run_security_eval called on their own, the     *)
(* answers of the service recorded with the result.                        *)
(***************************************************************************)
InitCat ==
    /\ catName = "none"
    /\ catInput = <<>>
    /\ catResult = EmptyDict

\* await self.run_performance_eval()
CallPerformance ==
    /\ \E response \in Responses :
          /\ catInput' = <<response>>
          /\ catResult' = run_performance_eval(response).result
    /\ catName' = "performance"
    /\ UNCHANGED <<schedVars, aggVars, gradeVars, execVars, evalVars,
                   exitVars, pubVars, demoVars>>

\* await self.run_security_eval()
CallSecurity ==
    /\ \E responses \in [1..Len(SecurityTests) -> Responses] :
          /\ catInput' = responses
          /\ catResult' = run_security_eval(responses).result
    /\ catName' = "security"
    /\ UNCHANGED <<schedVars, aggVars, gradeVars, execVars, evalVars,
                   exitVars, pubVars, demoVars>>

(***************************************************************************)
(* run_milestone1_demo.py: the six checks of run_milestone1_demo, each one  *)
(* request to the service, the patch request only with a plan id.           *)
(***************************************************************************)
\* the bodies of a response: a JSON object with or without an id, or no JSON
DemoBodies ==
    {[json |-> TRUE, id |-> v] : v \in {Str("id-1"), Str(""), None}}
    \cup {[json |-> FALSE, id |-> None]}

DemoStatusCodes == {200, 500}

\* the classes of what a request raises: a transport fault of requests, another
\* Exception, or an interrupt
DemoFaults == {"RequestException", "Exception", "BaseException"}

DemoReplies ==
    {[kind |-> "response", status_code |-> c, body |-> b] :
        c \in DemoStatusCodes, b \in DemoBodies}
    \cup {[kind |-> "fault", exc |-> x] : x \in DemoFaults}

\* except Exception
CaughtByException(exc) == exc \in {"RequestException", "Exception"}

\* response.json() of a body that is no JSON raises a ValueError, which newer
\* versions of requests derive from RequestException
JsonFaults == {"RequestException", "Exception"}

\* check_api_health: except requests.exceptions.RequestException only
check_api_health(reply) ==
    IF reply.kind = "fault"
    THEN IF reply.exc = "RequestException" THEN {Return(FALSE)} ELSE {Raise(reply.exc, "")}
    ELSE IF reply.status_code = 200
    THEN IF reply.body.json THEN {Return(TRUE)}
         ELSE {IF x = "RequestException" THEN Return(FALSE) ELSE Raise(x, "") : x \in JsonFaults}
    ELSE {Return(FALSE)}

\* test_code_completion and test_code_analysis: True on a 200 answer read as JSON
test_code_completion(reply) ==
    IF reply.kind = "fault"
    THEN IF CaughtByException(reply.exc) THEN {Return(FALSE)} ELSE {Raise(reply.exc, "")}
    ELSE {Return(reply.status_code = 200 /\ reply.body.json)}

test_code_analysis(reply) == test_code_completion(reply)

\* test_agent_plan: result.get('plan_id') on a 200 answer, None otherwise
test_agent_plan(reply) ==
    IF reply.kind = "fault"
    THEN IF CaughtByException(reply.exc) THEN {Return(None)} ELSE {Raise(reply.exc, "")}
    ELSE IF reply.status_code = 200 /\ reply.body.json THEN {Return(reply.body.id)}
    ELSE {Return(None)}

\* not plan_id
NotValue(v) == v = None \/ ~Truthy(v)

\* the patch request sent whatever the plan id
test_patch_generation_unguarded(id, reply) ==
    [requests |-> <<"/api/v1/patch">>, outcomes |-> test_agent_plan(reply)]

\* test_patch_generation: the requests it sends and how it can end
test_patch_generation(id, reply) ==
    IF NotValue(id)
    THEN [requests |-> <<>>, outcomes |-> {Return(None)}]
    ELSE [requests |-> <<"/api/v1/patch">>, outcomes |-> test_agent_plan(reply)]

\* test_metrics: True on a 200 answer, the body read as text
test_metrics(reply) ==
    IF reply.kind = "fault"
    THEN IF CaughtByException(reply.exc) THEN {Return(FALSE)} ELSE {Raise(reply.exc, "")}
    ELSE {Return(reply.status_code = 200)}

\* results[name] = value
Record(results, name, value) ==
    [c \in DOMAIN results \cup {name} |-> IF c = name THEN value ELSE results[c]]

InitDemo ==
    /\ demoPc = "health"
    /\ demoResults = <<>>
    /\ demoRequests = <<>>
    /\ plan_id = None
    /\ planReply = [kind |-> "none"]
    /\ demoSuccess = FALSE

\* one check that records the bool its test returned
DemoCheck(name, path, outcomes, next) ==
    /\ demoPc = name
    /\ demoRequests' = Append(demoRequests, path)
    /\ \E o \in outcomes :
          IF o.kind = "return"
          THEN demoResults' = Record(demoResults, name, o.result) /\ demoPc' = next
          ELSE demoResults' = demoResults /\ demoPc' = "aborted"
    /\ UNCHANGED <<plan_id, planReply, demoSuccess>>
    /\ UNCHANGED <<schedVars, aggVars, gradeVars, execVars, evalVars, exitVars,
                   pubVars, catVars>>

\* results['health'] = check_api_health()
DemoHealth ==
    \E reply \in DemoReplies :
        DemoCheck("health", "/health", check_api_health(reply), "completion")

\* results['completion'] = test_code_completion()
DemoCompletion ==
    \E reply \in DemoReplies :
        DemoCheck("completion", "/api/v1/complete", test_code_completion(reply), "analysis")

\* results['analysis'] = test_code_analysis()
DemoAnalysis ==
    \E reply \in DemoReplies :
        DemoCheck("analysis", "/api/v1/analyze", test_code_analysis(reply), "planning")

\* plan_id = test_agent_plan(); results['planning'] = plan_id is not None
DemoPlanning ==
    /\ demoPc = "planning"
    /\ demoRequests' = Append(demoRequests, "/api/v1/plan")
    /\ \E reply \in DemoReplies :
          /\ planReply' = reply
          /\ \E o \in test_agent_plan(reply) :
                IF o.kind = "return"
                THEN /\ plan_id' = o.result
                     /\ demoResults' = Record(demoResults, "planning", o.result # None)
                     /\ demoPc' = "patching"
                ELSE /\ plan_id' = plan_id
                     /\ demoResults' = demoResults
                     /\ demoPc' = "aborted"
    /\ UNCHANGED demoSuccess
    /\ UNCHANGED <<schedVars, aggVars, gradeVars, execVars, evalVars, exitVars,
                   pubVars, catVars>>

\* patch_id = test_patch_generation(plan_id); results['patching'] = patch_id is not None
DemoPatching ==
    /\ demoPc = "patching"
    /\ \E reply \in DemoReplies :
          LET test == test_patch_generation(plan_id, reply)
          IN  /\ demoRequests' = demoRequests \o test.requests
              /\ \E o \in test.outcomes :
                    IF o.kind = "return"
                    THEN /\ demoResults' = Record(demoResults, "patching", o.result # None)
                         /\ demoPc' = "metrics"
                    ELSE /\ demoResults' = demoResults
                         /\ demoPc' = "aborted"
    /\ UNCHANGED <<plan_id, planReply, demoSuccess>>
    /\ UNCHANGED <<schedVars, aggVars, gradeVars, execVars, evalVars, exitVars,
                   pubVars, catVars>>

\* results['metrics'] = test_metrics()
DemoMetrics ==
    \E reply \in DemoReplies :
        DemoCheck("metrics", "/metrics", test_metrics(reply), "summary")

\* the summary and return passed_tests >= total_tests * 0.8
DemoSummary ==
    /\ demoPc = "summary"
    /\ demoSuccess' = run_milestone1_demo(demoResults)
    /\ demoPc' = "done"
    /\ UNCHANGED <<demoResults, demoRequests, plan_id, planReply>>
    /\ UNCHANGED <<schedVars, aggVars, gradeVars, execVars, evalVars, exitVars,
                   pubVars, catVars>>

(***************************************************************************)
(* Specifications.                                                         *)
(***************************************************************************)
Init ==
    /\ InitSched /\ InitAgg /\ InitGrade /\ InitExec /\ InitEval(<<>>, None) /\ InitExit
    /\ InitPublish(Report(<<>>)) /\ InitCat /\ InitDemo

Next ==
    \/ AwaitTask
    \/ TaskReturns
    \/ TaskRaisesCaught
    \/ TaskRaisesUncaught
    \/ Summarize
    \/ SaveResults
    \/ PublishResults
    \/ ReturnResults

\* one run of run_all_evaluations
Spec == Init /\ [][Next]_vars

\* calculate_summary on mappings of up to MaxCats categories
SpecAgg == Init /\ [][AggRecord]_vars

\* calculate_grade on up to MaxGradeCalls pass rates
SpecGrade == Init /\ [][CalculateGrade]_vars

\* calculate_summary before and after categories fail, on the mappings of SpecAgg
\* and on a full run
InitAggFail ==
    /\ InitSched /\ InitGrade /\ InitExec /\ InitEval(<<>>, None) /\ InitExit
    /\ InitPublish(Report(<<>>)) /\ InitCat /\ InitDemo
    /\ \E evals \in {EmptyDict, BenchmarksSucceeded} :
          /\ aggEvals = evals
          /\ aggSummary = calculate_summary(evals)

NextAggFail == AggRecord \/ AggFail

SpecAggFail == InitAggFail /\ [][NextAggFail]_vars

NextCat == CallPerformance \/ CallSecurity

\* the two categories on every combination of answers
SpecCat == Init /\ [][NextCat]_vars

NextDemo ==
    \/ DemoHealth
    \/ DemoCompletion
    \/ DemoAnalysis
    \/ DemoPlanning
    \/ DemoPatching
    \/ DemoMetrics
    \/ DemoSummary

\* one run of run_milestone1_demo on every combination of answers
SpecDemo == Init /\ [][NextDemo]_vars

NextExec == ExecCall \/ ExecWrite \/ ExecRun \/ ExecFinally

\* up to MaxCalls invocations of execute_code
SpecExec == Init /\ [][NextExec]_vars

\* run_evaluation on every dataset of up to MaxProblems problems and on ScenarioB
InitRunEvaluation ==
    /\ InitSched /\ InitAgg /\ InitGrade /\ InitExec /\ InitExit
    /\ InitPublish(Report(<<>>)) /\ InitCat /\ InitDemo
    /\ \E problems \in Datasets, limit \in Limits : InitEval(problems, limit)

NextEval ==
    \/ EvalLoad
    \/ EvalComplete
    \/ EvalNoCompletion
    \/ EvalSolution
    \/ EvalSolutionRaises
    \/ EvalSummarize

SpecEval == InitRunEvaluation /\ [][NextEval]_vars

\* run_humaneval.py and the suite, one after the other.  The two programs share
\* no state, so one order of their steps shows what every interleaving shows.
FailingThenPassing ==
    <<RaisingTest,
      [api |-> [kind |-> "response", status_code |-> 404, body |-> NoBody],
       run |-> Passing.run],
      Passing>>
WriteFails == <<[Passing EXCEPT !.run = WriteFault]>>

InitPrograms ==
    /\ InitSched /\ InitAgg /\ InitGrade /\ InitExec /\ InitExit
    /\ InitPublish(Report(<<>>)) /\ InitCat /\ InitDemo
    /\ \E problems \in {FailingThenPassing, WriteFails} : InitEval(problems, None)

SuiteAfterEvaluation == evPc \in {"done", "aborted"} /\ Next

NextPrograms == NextEval \/ SuiteAfterEvaluation

SpecPrograms == InitPrograms /\ [][NextPrograms]_vars

NextExit == MainHumaneval \/ MainSuite \/ MainMilestone1

SpecExit == Init /\ [][NextExit]_vars

\* save_results and publish_results on every report of PubReports
InitPublishing ==
    /\ InitSched /\ InitAgg /\ InitGrade /\ InitExec /\ InitEval(<<>>, None) /\ InitExit
    /\ InitCat /\ InitDemo
    /\ \E report \in PubReports : InitPublish(report)

NextPublish == PubTick \/ PubSave \/ PubPublish

SpecPublish == InitPublishing /\ [][NextPublish]_vars

(***************************************************************************)
(* Properties of run_all_evaluations.                                      *)
(***************************************************************************)
\* the scheduler recorded this result from a raised fault
IsExceptionEntry(result) == DOMAIN result = {"error"}

\* C1: the evaluations mapping of every returned report has exactly one entry per
\* listed category, whatever mix of categories returned or raised: as many
\* entries as eval_tasks, no key twice, the keys being the listed names.
C1_ReportHasEveryCategoryOnce ==
    \A k \in 1..Len(returned) :
        LET ev == returned[k].evaluations
        IN  /\ Len(ev) = Len(eval_tasks)
            /\ Cardinality(Keys(ev)) = Len(ev)
            /\ Keys(ev) = CategoryNames

\* a report was returned from a run in which one category raised and another
\* returned a success
C1_Witness ==
    /\ Len(returned) = 1
    /\ \E n \in CategoryNames : IsExceptionEntry(Get(returned[1].evaluations, n))
    /\ \E n \in CategoryNames :
          GetOr(Get(returned[1].evaluations, n), "status", "none") = "success"

\* C2 (as amended): a category that fails by returning a failure or by raising
\* an Exception never stops the loop: every category before the loop position
\* has run and has its entry, the loop is left early only by a fault that is
\* not an Exception, and the steps after the loop find every category settled.
C2_ExceptionIsolated ==
    /\ \A k \in 1..Len(eval_tasks) :
          k < idx => /\ coro[eval_tasks[k]] = "closed"
                     /\ HasKey(evaluations, eval_tasks[k])
    /\ (pc = "aborted" /\ LoopHasNext)
          => (outcome.kind = "raise" /\ outcome.exc # "Exception")
    /\ pc \in {"save", "publish", "return", "done"} => idx = Len(eval_tasks) + 1

\* the first category raised an Exception and the last one ran and was recorded
C2_Witness ==
    /\ pc = "done"
    /\ IsExceptionEntry(Get(evaluations, eval_tasks[1]))
    /\ HasKey(evaluations, eval_tasks[Len(eval_tasks)])

\* C2 (as claimed): whatever kind of fault a category raises, the loop goes on
\* to the other categories.
C2_AnyFaultIsolated ==
    (outcome.kind = "raise" /\ pc # "running") => ~(pc = "aborted" /\ LoopHasNext)

\* C3: when the operation of a category raised, the entry recorded under its name
\* is a failure result as a category returns it: status "failed" and the
\* message of the fault.
C3_RaisedFaultRecordedAsFailed ==
    (pc = "loop" /\ outcome.kind = "raise") =>
        LET result == Get(evaluations, eval_tasks[idx - 1])
        IN  /\ In("error", result) /\ result.error = outcome.msg
            /\ In("status", result) /\ result.status = "failed"

\* C4: the summary, the saved document, the published page and the returned
\* report exist only when every listed category has settled and is recorded.
C4_Barrier ==
    (\/ DOMAIN summary # {}
     \/ Len(jsonFiles) > 0
     \/ Len(htmlFiles) > 0
     \/ Len(returned) > 0
     \/ pc \in {"save", "publish", "return", "done"})
    => \A n \in CategoryNames : coro[n] = "closed" /\ HasKey(evaluations, n)

\* the report was saved, published and returned
C4_Witness ==
    /\ pc = "done"
    /\ Len(jsonFiles) = 1 /\ Len(htmlFiles) = 1 /\ Len(returned) = 1
    /\ DOMAIN summary # {}

\* C5 (as amended): the categories run one after another in list order: a
\* coroutine has begun only if every earlier-listed one has settled.
C5_Sequential ==
    /\ ~interleaved
    /\ \A j \in 1..Len(eval_tasks) :
          coro[eval_tasks[j]] # "created"
             => \A i \in 1..(j - 1) : coro[eval_tasks[i]] = "closed"

\* the second category is running, the first has settled
C5_Witness ==
    /\ coro[eval_tasks[2]] = "running"
    /\ coro[eval_tasks[1]] = "closed"

\* C5 (as claimed): the execution of the categories interleaves: by the end of
\* the run a later-listed category has begun before an earlier-listed one
\* settled.
C5_Interleaves == pc = "done" => interleaved

(***************************************************************************)
(* Properties of the Result Aggregator.                                    *)
(***************************************************************************)
\* the positions of the entries that have a pass_rate
Rated(evals) == {k \in 1..Len(evals) : "pass_rate" \in DOMAIN evals[k][2]}

\* the sum of the pass rates at the positions S
RECURSIVE RateSum(_, _)
RateSum(evals, S) ==
    IF S = {} THEN Rat(0, 1)
    ELSE LET k == CHOOSE x \in S : TRUE
         IN  RatAdd(evals[k][2].pass_rate, RateSum(evals, S \ {k}))

\* rate is the arithmetic mean of the pass rates of evals, 0 when there is none
IsMeanOfRated(rate, evals) ==
    LET S == Rated(evals)
        sum == RateSum(evals, S)
    IN  IF S = {} THEN rate.num = 0
        ELSE rate.num * sum.den * Cardinality(S) = sum.num * rate.den

\* a category without pass_rate is added under a new name
AddsUnrated ==
    /\ Len(aggEvals') = Len(aggEvals) + 1
    /\ SubSeq(aggEvals', 1, Len(aggEvals)) = aggEvals
    /\ ~HasKey(aggEvals, aggEvals'[Len(aggEvals')][1])
    /\ "pass_rate" \notin DOMAIN aggEvals'[Len(aggEvals')][2]

\* C6: overall_pass_rate is the arithmetic mean of pass_rate over exactly the
\* categories whose result has one (0 when none has), and adding a category
\* without pass_rate leaves overall_pass_rate unchanged.
C6_MeanOfRated ==
    /\ [](IsMeanOfRated(aggSummary.overall_pass_rate, aggEvals))
    /\ [][AddsUnrated => RatEq(aggSummary'.overall_pass_rate, aggSummary.overall_pass_rate)]_vars

\* two categories with different pass rates, then a failed one without pass_rate
C6_Witness ==
    /\ Len(aggEvals) = 3
    /\ Rated(aggEvals) = {1, 2}
    /\ ~RatEq(aggEvals[1][2].pass_rate, aggEvals[2][2].pass_rate)
    /\ RatLess(Rat(0, 1), aggSummary.overall_pass_rate)

Rank(grade) ==
    CASE grade = "F" -> 0 [] grade = "D" -> 1 [] grade = "C" -> 2
      [] grade = "B" -> 3 [] grade = "A" -> 4

\* C7: calculate_grade gives A from 0.9, B from 0.8 to below 0.9, C from 0.7 to
\* below 0.8, D from 0.6 to below 0.7 and F below 0.6, each lower threshold
\* included: grade(0.90)=A, grade(0.8999)=B, grade(0.80)=B, grade(0.5999)=F.
C7_GradeTable ==
    \A i \in 1..Len(grades) :
        LET r == grades[i].rate
            g == grades[i].grade
        IN  /\ RatGeq(r, Rat(9, 10)) => g = "A"
            /\ (RatGeq(r, Rat(8, 10)) /\ RatLess(r, Rat(9, 10))) => g = "B"
            /\ (RatGeq(r, Rat(7, 10)) /\ RatLess(r, Rat(8, 10))) => g = "C"
            /\ (RatGeq(r, Rat(6, 10)) /\ RatLess(r, Rat(7, 10))) => g = "D"
            /\ RatLess(r, Rat(6, 10)) => g = "F"
            /\ r = Rat(90, 100) => g = "A"
            /\ r = Rat(8999, 10000) => g = "B"
            /\ r = Rat(80, 100) => g = "B"
            /\ r = Rat(5999, 10000) => g = "F"

\* the grades of 0.90 and of 0.8999 were calculated
C7_Witness ==
    /\ Len(grades) = 2
    /\ grades[1].rate = Rat(90, 100)
    /\ grades[2].rate = Rat(8999, 10000)

\* C8: the grade is monotonic non-decreasing in the pass rate: for r1 <= r2 the
\* grade of r2 is the same letter as the grade of r1 or a better one, in the
\* order F < D < C < B < A.
C8_GradeMonotonic ==
    \A i, j \in 1..Len(grades) :
        ~RatLess(grades[j].rate, grades[i].rate)
            => Rank(grades[i].grade) <= Rank(grades[j].grade)

\* two pass rates r1 < r2 with different grades
C8_Witness ==
    /\ Len(grades) = 2
    /\ RatLess(grades[1].rate, grades[2].rate)
    /\ grades[1].grade = "D"
    /\ grades[2].grade = "C"

\* the recommendations that name the category
RecsNaming(recs, n) ==
    {k \in 1..Len(recs) : recs[k].text = "Improve" /\ recs[k].name = n}

\* the rate shown is the pass rate to the nearest tenth of a percent
ShowsRate(rec, rate) ==
    LET d == rec.current * rate.den - 1000 * rate.num
    IN  2 * d <= rate.den /\ -2 * d <= rate.den

Triggers(result) ==
    "pass_rate" \in DOMAIN result /\ RatLess(result.pass_rate, Rat(8, 10))

ScenarioA ==
    <<<<"Alpha", [status |-> "success", pass_rate |-> Rat(1, 1)]>>,
      <<"Beta", [status |-> "success", pass_rate |-> Rat(1, 2)]>>,
      <<"Gamma", [status |-> "failed", error |-> "stderr text"]>>>>

\* C9: the recommendations hold exactly one entry, naming the category and its
\* rate, for every category whose pass_rate is present and below 0.8, none for
\* any other category, and the single affirmative statement when no category
\* has one, so that the list is never empty; {Alpha: 1.0, Beta: 0.5, Gamma:
\* failed} gives an entry for Beta and none for Alpha or Gamma.
C9_Recommendations ==
    LET recs == aggSummary.recommendations
        triggering == {k \in 1..Len(aggEvals) : Triggers(aggEvals[k][2])}
    IN  /\ Len(recs) >= 1
        /\ \A k \in 1..Len(aggEvals) :
              LET named == RecsNaming(recs, aggEvals[k][1])
              IN  IF k \in triggering
                  THEN /\ Cardinality(named) = 1
                       /\ \A i \in named : ShowsRate(recs[i], aggEvals[k][2].pass_rate)
                  ELSE named = {}
        /\ IF triggering = {}
           THEN Len(recs) = 1 /\ recs[1].text = Excellent.text
           ELSE Len(recs) = Cardinality(triggering)
                /\ \A i \in 1..Len(recs) : recs[i].text = "Improve"
        /\ aggEvals = ScenarioA =>
              /\ RecsNaming(recs, "Beta") # {}
              /\ RecsNaming(recs, "Alpha") = {}
              /\ RecsNaming(recs, "Gamma") = {}

\* the summary of {Alpha: 1.0, Beta: 0.5, Gamma: failed} was calculated
C9_Witness ==
    /\ aggEvals = ScenarioA
    /\ Len(aggSummary.recommendations) = 1

(***************************************************************************)
(* Properties of execute_code.                                             *)
(***************************************************************************)
\* the dictionary says the run was ended by the timeout
SaysTimeout(result) ==
    /\ result.success = FALSE
    /\ "timeout" \in DOMAIN result
    /\ result.timeout = TRUE
    /\ result.stderr = "Execution timeout"

\* C10: when the child outlives the timeout, execute_code ends it and returns an
\* outcome with success=false, timeout=true and the diagnostic "execution
\* timeout", which no run that ended otherwise (a non-zero exit, another fault)
\* returns.
C10_TimeoutOutcome ==
    /\ (exPc = "finally" /\ exProc.kind = "timeout") => exChild = "killed"
    /\ \A i \in 1..Len(exLog) :
          exLog[i].proc.kind = "timeout" =>
              /\ exLog[i].end.kind = "return"
              /\ SaysTimeout(exLog[i].end.result)
              /\ \A j \in 1..Len(exLog) :
                    exLog[j].proc.kind # "timeout" => exLog[i].end # exLog[j].end

\* C11: the temporary file created by an invocation of execute_code is released
\* on every exit path: once the invocation has ended (normally, with a non-zero
\* exit, with a fault while writing the text or while executing, or by the
\* timeout) the file no longer exists.
C11_TempFileReleased == exPc = "idle" => tempFiles = {}

\* C12: execute_code returns success=true exactly when the child ended with exit
\* status 0 within the timeout, and for a child that ended with a non-zero
\* status the outcome is success=false with the captured stdout, stderr and exit
\* status of the child unchanged.
C12_SuccessIffExitZero ==
    \A i \in 1..Len(exLog) :
        LET proc == exLog[i].proc
            end == exLog[i].end
        IN  /\ (end.kind = "return" /\ end.result.success)
                  <=> (proc.kind = "completed" /\ proc.returncode = 0)
            /\ (proc.kind = "completed" /\ proc.returncode # 0) =>
                  /\ end.kind = "return"
                  /\ end.result.success = FALSE
                  /\ end.result.stdout = proc.stdout
                  /\ end.result.stderr = proc.stderr
                  /\ end.result.returncode = proc.returncode

\* one child ended with status 0 and text on stderr, one with status 1 and the
\* message of a raising test
C12_Witness ==
    /\ Len(exLog) = 2
    /\ exLog[1].proc.kind = "completed" /\ exLog[1].proc.returncode = 0
    /\ exLog[1].proc.stderr # ""
    /\ exLog[2].proc.kind = "completed" /\ exLog[2].proc.returncode = 1
    /\ exLog[2].proc.stderr = "AssertionError"
    /\ exLog[2].end.result.success = FALSE

(***************************************************************************)
(* Properties of run_evaluation.                                           *)
(***************************************************************************)
\* the problems of a returned summary whose record says success
Successes(s) == {i \in 1..Len(s.results) : s.results[i].result.success}

\* C13: the pass_rate of the summary run_evaluation returns is the number of
\* problems recorded with success=true over the number of problems attempted
\* (those without completion included) times 100, and 0 when no problem was
\* attempted; ten problems with eight successes, one raising test and one
\* timeout give 80.
C13_PassRate ==
    evPc = "done" =>
        LET total == Len(service)
            rate  == evSummary.pass_rate
        IN  /\ evSummary.total_problems = total
            /\ Len(evSummary.results) = total
            /\ IF total = 0
               THEN rate.num = 0
               ELSE rate.num * total = Cardinality(Successes(evSummary)) * 100 * rate.den
            /\ service = ScenarioB => rate.num = 80 * rate.den

\* the run over ScenarioB returned
C13_Witness ==
    /\ evPc = "done"
    /\ service = ScenarioB
    /\ Cardinality(Successes(evSummary)) = 8
    /\ evSummary.results[4].result.stderr = "AssertionError"
    /\ evSummary.results[9].result.stderr = "Execution timeout"

\* the replies the claim lists as producing no completion
NoCompletionReply(reply) ==
    \/ reply.kind = "response" /\ reply.status_code # 200
    \/ reply.kind = "fault" /\ reply.exc = "Exception"
    \/ reply.kind = "response" /\ reply.status_code = 200 /\ reply.body.json
       /\ Len(reply.body.suggestions) = 0

\* C14: a problem whose completion call ends with a non-200 status, a transport
\* failure or an empty list of suggestions is recorded as failed with the
\* diagnostic "No completion", and execute_code is never invoked for it.
C14_NoCompletionRecorded ==
    \A i \in 1..Len(service) :
        NoCompletionReply(service[i].api) =>
            /\ execCalls[i] = 0
            /\ i < evI =>
                  /\ i <= Len(evResults)
                  /\ evResults[i].task_id = i
                  /\ evResults[i].passed = FALSE
                  /\ evResults[i].completion = Str("")
                  /\ evResults[i].result = [success |-> FALSE, stderr |-> "No completion"]

\* a run ended in which one problem met a non-200 status, another a transport
\* failure
C14_Witness ==
    /\ evPc = "done"
    /\ Len(service) = 2
    /\ service[1].api.kind = "response" /\ service[1].api.status_code = 404
    /\ service[2].api.kind = "fault"
    /\ evResults[2].result.stderr = "No completion"

\* C16: no failure of a single problem ends run_evaluation early: whatever value
\* the completion call returns for a problem, the run records a result for the
\* problem and goes on; the run stops early only where the completion call itself
\* was interrupted.
C16_EveryValueRecorded ==
    evPc = "aborted" => service[evI].api.kind = "fault"

C15_NoRetry ==
    /\ [](/\ \A i \in 1..Len(service) :
                /\ apiCalls[i] <= 1 /\ execCalls[i] <= 1
                /\ i < evI => apiCalls[i] = 1
                /\ i > evI => (apiCalls[i] = 0 /\ execCalls[i] = 0)
          /\ pc \in {"save", "publish", "return", "done"} =>
                \A c \in CategoryNames : coro[c] = "closed")
    /\ [][/\ \A c \in CategoryNames :
                /\ coro[c] # "created" => coro'[c] # "created"
                /\ coro[c] = "closed" => coro'[c] = "closed"
          /\ \A n \in Keys(evaluations) :
                HasKey(evaluations', n) /\ Get(evaluations', n) = Get(evaluations, n)
          /\ Len(evResults') >= Len(evResults)
          /\ \A i \in 1..Len(evResults) : evResults'[i] = evResults[i]]_vars

\* run_evaluation ended with a failed problem called once and executed once and
\* a problem without completion never executed; the suite ended with a category
\* that raised
C15_Witness ==
    /\ evPc = "done"
    /\ service = FailingThenPassing
    /\ apiCalls = <<1, 1, 1>>
    /\ execCalls = <<1, 0, 1>>
    /\ ~evResults[1].passed
    /\ pc = "done"
    /\ \E n \in CategoryNames : IsExceptionEntry(Get(evaluations, n))

Progress ==
    2 * idx + (CASE pc = "loop" -> 0 [] pc = "running" -> 1 [] pc = "save" -> 2
                 [] pc = "publish" -> 3 [] pc = "return" -> 4 [] pc = "done" -> 5
                 [] pc = "aborted" -> 2 * Len(eval_tasks) + 6)

\* run_all_evaluations has a next step: the next category can be awaited, the
\* awaited one settles, or a step after the loop is due
CanStep ==
    \/ pc = "loop" /\ LoopHasNext /\ Startable # {}
          /\ \A k \in Startable : coro[eval_tasks[k]] = "created"
    \/ ENABLED TaskReturns
    \/ ENABLED TaskRaisesCaught
    \/ ENABLED TaskRaisesUncaught
    \/ pc = "loop" /\ ~LoopHasNext
    \/ ENABLED SaveResults
    \/ ENABLED PublishResults
    \/ ENABLED ReturnResults

C20_PublishIdempotent ==
    /\ [](\A i, j \in 1..Len(pubFiles) :
             pubFiles[i].kind = pubFiles[j].kind =>
                pubFiles[i].content = pubFiles[j].content)
    /\ [][pubReport' = pubReport
          /\ (Len(pubFiles') > Len(pubFiles) =>
                 \A i \in 1..Len(pubFiles) : pubFiles'[i] = pubFiles[i])]_vars

\* a report with a failed category was saved twice and rendered twice at
\* different times
C20_Witness ==
    /\ Len(pubFiles) = 4
    /\ pubFiles[1].kind = "json" /\ pubFiles[2].kind = "html"
    /\ pubFiles[3].kind = "json" /\ pubFiles[4].kind = "html"
    /\ pubFiles[1].name # pubFiles[3].name
    /\ pubFiles[2].name # pubFiles[4].name
    /\ pubFiles[1].content = pubFiles[3].content
    /\ pubFiles[2].content = pubFiles[4].content
    /\ Len(pubReport.evaluations) = 1
    /\ GetOr(pubReport.evaluations[1][2], "status", "none") = "failed"

\* the sandbox runs the program of problem i into the timeout
TimesOut(i) == service[i].api = TextReply /\ service[i].run.kind = "timeout"

\* C21: a timeout of the sandbox touches only the execution it governs: the
\* problem whose execution timed out is recorded as failed and the loop goes on
\* to the next problem; the run never ends at such a problem, and the summary it
\* returns holds the record of that problem and of every problem after it.
C21_TimeoutContained ==
    /\ \A i \in 1..Len(service) :
          TimesOut(i) =>
              /\ ~(evPc = "aborted" /\ evI = i)
              /\ (evPc = "loop" /\ execCalls[i] = 1) => evI > i
              /\ i < evI =>
                    /\ evResults[i].task_id = i
                    /\ evResults[i].passed = FALSE
                    /\ evResults[i].result.success = FALSE
                    /\ evResults[i].result.stderr = "Execution timeout"
    /\ evPc = "done" =>
          /\ Len(evSummary.results) = Len(service)
          /\ \A i \in 1..Len(service) : apiCalls[i] = 1

\* the first problem timed out, the second was attempted after it and passed,
\* and the run returned its summary
C21_Witness ==
    /\ evPc = "done"
    /\ Len(service) = 2
    /\ TimesOut(1)
    /\ evSummary.results[1].result.stderr = "Execution timeout"
    /\ evSummary.results[2].passed
    /\ evSummary.passed = 1

\* min(m, N)
Min(m, n) == IF m < n THEN m ELSE n

\* C22: for every max_problems m >= 0 and dataset of N problems, run_evaluation
\* attempts exactly the first min(m, N) problems of the dataset, in order.
C22_AttemptsMin ==
    (evPc # "start" /\ max_problems # None) =>
        service = SubSeq(dataset, 1, Min(max_problems.value, Len(dataset)))

\* C23: at every point of the loop of run_evaluation and in the summary it
\* returns, results holds one entry per problem processed so far, in dataset
\* order, passed is the number of entries with passed=true, and
\* 0 <= passed <= total_problems.
C23_ResultsList ==
    /\ evPc \in {"loop", "completed", "aborted", "done"} =>
          /\ Len(evResults) = evI - 1
          /\ \A i \in 1..Len(evResults) : evResults[i].task_id = i
          /\ evPassed = Cardinality({i \in 1..Len(evResults) : evResults[i].passed})
          /\ 0 <= evPassed /\ evPassed <= Len(service)
    /\ evPc = "done" =>
          /\ evSummary.results = evResults
          /\ Len(evSummary.results) = evSummary.total_problems
          /\ evSummary.passed = evPassed
          /\ evSummary.passed <= evSummary.total_problems

\* in the middle of the loop: one passed problem is recorded and the completion
\* of the second, which is none, is at hand
C23_Witness ==
    /\ evPc = "completed"
    /\ evI = 2
    /\ Len(service) = 2
    /\ Len(evResults) = 1
    /\ evResults[1].passed
    /\ evPassed = 1
    /\ ~Truthy(completion)

(***************************************************************************)
(* calculate_summary on mappings with failed categories.                   *)
(***************************************************************************)
\* C24: for a mapping in which no category has a pass_rate, calculate_summary
\* yields overall_pass_rate 0, grade F, successful_evaluations 0 and the
\* affirmative statement as the only recommendation.
C24_NothingRated ==
    Rated(aggEvals) = {} =>
        /\ aggSummary.overall_pass_rate.num = 0
        /\ aggSummary.grade = "F"
        /\ aggSummary.successful_evaluations = 0
        /\ aggSummary.recommendations =
              <<[text |-> "Excellent performance across all evaluations!"]>>

\* three categories, each failed, of both shapes of failure
C24_Witness ==
    /\ Len(aggEvals) = 3
    /\ Rated(aggEvals) = {}
    /\ \E k \in 1..3 : IsExceptionEntry(aggEvals[k][2])
    /\ \E k \in 1..3 : GetOr(aggEvals[k][2], "status", "none") = "failed"
    /\ aggSummary.total_evaluations = 3

\* the step replaces the rated result at position k by a result without
\* pass_rate and leaves every other entry as it is
ReplacedByFailure(k) ==
    /\ Len(aggEvals') = Len(aggEvals)
    /\ k \in Rated(aggEvals)
    /\ k \notin Rated(aggEvals')
    /\ \A j \in 1..Len(aggEvals) :
          /\ aggEvals'[j][1] = aggEvals[j][1]
          /\ j # k => aggEvals'[j] = aggEvals[j]

\* the rate at position k is below the mean of the other rated categories
BelowTheOthers(k) ==
    LET S == Rated(aggEvals) \ {k}
    IN  /\ S # {}
        /\ RatLess(aggEvals[k][2].pass_rate,
                   RatDivInt(RateSum(aggEvals, S), Cardinality(S)))

\* C25: overall_pass_rate is not monotone under failure: replacing the result of
\* a category whose pass_rate is below the mean of the other rated categories
\* by a failure without pass_rate strictly increases overall_pass_rate, and it
\* can raise the grade: the run with rates 2/3, 1, 1, 1 and two failed
\* categories grades A, the same run with those two at 0.85 and 0.60 grades B.
C25_FailureRaisesMean ==
    /\ [][\A k \in 1..Len(aggEvals) :
             (ReplacedByFailure(k) /\ BelowTheOthers(k)) =>
                 RatLess(aggSummary.overall_pass_rate, aggSummary'.overall_pass_rate)]_vars
    /\ [](aggEvals = BenchmarksSucceeded => aggSummary.grade = "B")
    /\ [](aggEvals = BenchmarksFailed => aggSummary.grade = "A")

\* the full run after both benchmark categories were replaced by failures
C25_Witness ==
    /\ aggEvals = BenchmarksFailed
    /\ aggSummary.grade = "A"
    /\ Rated(aggEvals) = {3, 4, 5, 6}

(***************************************************************************)
(* Properties of the categories.                                           *)
(***************************************************************************)
\* the call got no 200 answer: the service was unreachable or answered with
\* another status
NotOk(response) == response.kind = "fault" \/ response.status_code # 200

\* C26: when the metrics endpoint is unreachable or answers with a non-200
\* status, run_performance_eval returns status success with all four benchmarks
\* passing on the default value 0: passed=4, total=4, pass_rate=1.
C26_PerformanceDefaults ==
    (catName = "performance" /\ NotOk(catInput[1])) =>
        /\ catResult.status = "success"
        /\ catResult.passed = 4
        /\ catResult.total = 4
        /\ catResult.pass_rate.num = catResult.pass_rate.den
        /\ \A k \in 1..Len(catResult.benchmarks) : catResult.benchmarks[k].value = 0

\* run_performance_eval returned after the metrics endpoint answered 500
C26_Witness ==
    /\ catName = "performance"
    /\ catInput[1].kind = "response" /\ catInput[1].status_code = 500
    /\ catResult.passed = 4

\* C27: a security payload counts as blocked, and passed, exactly when the plan
\* call returns a status from 400 or fails for any reason; with the service
\* unreachable for every payload run_security_eval reports passed=4 of 4 and
\* pass_rate=1.
C27_BlockedOnErrorOrFault ==
    catName = "security" =>
        /\ \A k \in 1..Len(catInput) :
              /\ catResult.results[k].passed = catResult.results[k].blocked
              /\ catResult.results[k].passed <=>
                    (catInput[k].kind = "fault" \/ catInput[k].status_code >= 400)
        /\ (\A k \in 1..Len(catInput) : catInput[k].kind = "fault") =>
              /\ catResult.passed = 4
              /\ catResult.total = 4
              /\ catResult.pass_rate.num = catResult.pass_rate.den

\* run_security_eval returned with the service unreachable for every payload
C27_Witness ==
    /\ catName = "security"
    /\ \A k \in 1..Len(catInput) : catInput[k].kind = "fault"
    /\ catResult.passed = 4

(***************************************************************************)
(* Properties of the full suite run.                                       *)
(***************************************************************************)
\* C28: in every run of run_all_evaluations the code_quality category is
\* recorded with pass_rate 0, 1/3 or 2/3, so the recommendations of the summary
\* always hold an entry naming code_quality and never the affirmative
\* "Excellent performance" statement.
C28_CodeQualityAlwaysNamed ==
    /\ HasKey(evaluations, "code_quality") =>
          LET result == Get(evaluations, "code_quality")
          IN  /\ In("pass_rate", result)
              /\ result.pass_rate.den = Len(QualityCases)
              /\ result.pass_rate.num \in 0..2
    /\ DOMAIN summary # {} =>
          /\ RecsNaming(summary.recommendations, "code_quality") # {}
          /\ \A k \in 1..Len(summary.recommendations) :
                summary.recommendations[k] # Excellent

\* a suite run returned its report, every plan call of code_quality answered 200
C28_Witness ==
    /\ Len(returned) = 1
    /\ Get(evaluations, "code_quality").pass_rate = Rat(2, 3)
    /\ RecsNaming(summary.recommendations, "code_quality") # {}

\* C29: the humaneval category launches run_humaneval.py with "--subset small",
\* an option its parser does not declare, so the launch ends with a non-zero
\* exit: the category is always recorded with status "failed" and without
\* pass_rate, and its success result is never produced.
C29_HumanevalRecordedFailed ==
    HasKey(evaluations, "humaneval") =>
        LET result == Get(evaluations, "humaneval")
        IN  /\ In("status", result) /\ result.status = "failed"
            /\ ~In("pass_rate", result)

(***************************************************************************)
(* Properties of the milestone-1 workflow.                                 *)
(***************************************************************************)
\* the plan request was answered and planning failed: a fault the test catches,
\* a status other than 200, or an answer without plan_id
PlanningFails ==
    /\ planReply.kind # "none"
    /\ IF planReply.kind = "fault" THEN CaughtByException(planReply.exc)
       ELSE \/ planReply.status_code # 200
            \/ ~planReply.body.json
            \/ planReply.body.id = None

\* the positions of a path in the requests sent
Sent(path) == {k \in 1..Len(demoRequests) : demoRequests[k] = path}

\* C30: the patch request is issued only after the plan step returned a plan
\* id; whenever planning fails no patch request is ever sent, patching is
\* recorded as false, and the metrics check still runs, so that a run that
\* reaches its summary has recorded exactly six checks.
C30_PatchOnlyWithPlan ==
    /\ \A k \in Sent("/api/v1/patch") :
          /\ \E j \in Sent("/api/v1/plan") : j < k
          /\ ~NotValue(plan_id)
          /\ planReply.kind = "response" /\ planReply.status_code = 200
    /\ PlanningFails =>
          /\ Sent("/api/v1/patch") = {}
          /\ demoPc # "aborted" => ~demoResults["planning"]
          /\ demoPc \in {"metrics", "summary", "done"} => ~demoResults["patching"]
          /\ demoPc \in {"summary", "done"} =>
                /\ Sent("/metrics") = {Len(demoRequests)}
                /\ DOMAIN demoResults = Checks
                /\ Cardinality(DOMAIN demoResults) = 6
    /\ [][(PlanningFails /\ demoPc = "patching") =>
            (demoPc' = "metrics" /\ demoRequests' = demoRequests)]_vars

\* the run ended after a plan request answered 500: five requests, six checks
C30_Witness ==
    /\ demoPc = "done"
    /\ planReply.kind = "response" /\ planReply.status_code = 500
    /\ Len(demoRequests) = 5
    /\ Cardinality(DOMAIN demoResults) = 6
    /\ ~demoResults["patching"]

====
